---- MODULE Spec2Model ----
(***************************************************************************)
(* A model of extract_wikipedia_f1_grand_prix_race_summaries_by_year.py.   *)
(*                                                                         *)
(* Python strings are TLA+ strings (Len, SubSeq and \o act on them), a     *)
(* Python list is a sequence, a Python dict is the sequence of its         *)
(* (key, value) pairs in insertion order, None is the record None.         *)
(*                                                                         *)
(* A parsed document (BeautifulSoup) is the record                         *)
(*   [main_div |-> None or the div.mw-content-ltr.mw-parser-output,        *)
(*    elements |-> the attribute-carrying elements of the whole document,  *)
(*                 in document order, for the date search]                 *)
(* and a child of the main region is the record                            *)
(*   [name, attrs, htag, hpieces, pieces]; the main div is [children].     *)
(* name "#text" standing for a NavigableString.                            *)
(***************************************************************************)
EXTENDS Integers, Sequences, FiniteSets, TLC

VARIABLES
    \* ---- extract_page_summary ----
    soup,           \* the parsed page
    ppc,            \* position in extract_page_summary
    lead_html, i_count, stop_node,      \* result of step #1
    race_html, j_count,                 \* result of step #2
    combined_html,
    iso, pretty_date,
    summary,        \* the returned dict, None until the return
    \* ---- parse_year_links_from_category ----
    anchors,        \* soup.select("a[...]") input: every anchor of the page
    cpc,            \* position in parse_year_links_from_category
    a_idx,          \* index of the next anchor of the for loop
    links,          \* the dict under construction
    cat_result,     \* the returned dict (empty until the return)
    \* ---- main ----
    args, now_year,
    pc, cat_html, year_links, filtered, years_sorted, y_idx, results,
    output_file, exit_status, io_log

pageVars == <<soup, ppc, lead_html, i_count, stop_node, race_html, j_count,
              combined_html, iso, pretty_date, summary>>
catVars  == <<anchors, cpc, a_idx, links, cat_result>>
mainVars == <<args, now_year, pc, cat_html, year_links, filtered, years_sorted,
              y_idx, results, output_file, exit_status, io_log>>
vars == <<pageVars, catVars, mainVars>>

None == [none |-> TRUE]

(***************************************************************************)
(* Bounds of the model.                                                    *)
(***************************************************************************)
MaxChildren == 4        \* children of the main region, general pages
MaxTail == 1            \* nodes after the "Reactions" heading, end-to-end pages
MaxElements == 3        \* attribute-carrying elements in the date search
MaxAnchors == 3         \* anchors of a category page
MaxCatAnchors == 2      \* anchors of the category page of a whole run

(***************************************************************************)
(* String helpers: str.strip, str.join, str.startswith, "in", str.lower.   *)
(***************************************************************************)
Whitespace == {" ", "\n", "\t", "\r"}

Ch(s, i) == SubSeq(s, i, i)

RECURSIVE LStrip(_)
LStrip(s) == IF Len(s) > 0 /\ Ch(s, 1) \in Whitespace THEN LStrip(Tail(s)) ELSE s

RECURSIVE RStrip(_)
RStrip(s) ==
    IF Len(s) > 0 /\ Ch(s, Len(s)) \in Whitespace
    THEN RStrip(SubSeq(s, 1, Len(s) - 1)) ELSE s

Strip(s) == RStrip(LStrip(s))

RECURSIVE Join(_, _)
Join(parts, sep) ==
    IF parts = <<>> THEN ""
    ELSE IF Len(parts) = 1 THEN parts[1]
    ELSE parts[1] \o sep \o Join(Tail(parts), sep)

StartsWith(s, pre) == Len(s) >= Len(pre) /\ SubSeq(s, 1, Len(pre)) = pre

Contains(s, sub) ==
    \E i \in 1..(Len(s) - Len(sub) + 1) : SubSeq(s, i, i + Len(sub) - 1) = sub

LowerCh(c) ==
    CASE c = "R" -> "r" [] c = "A" -> "a" [] c = "C" -> "c" [] c = "E" -> "e"
      [] c = "P" -> "p" [] c = "T" -> "t" [] OTHER -> c

(***************************************************************************)
(* Optional[str]: None, or Some(s).                                        *)
(***************************************************************************)
Some(s) == [value |-> s]

(***************************************************************************)
(* Document nodes.  attrs is the attribute dict (a function from attribute *)
(* names); a multi-valued "class" is the list of its whitespace-separated  *)
(* tokens, so class="" is the empty list.  htag/hpieces describe the first *)
(* direct h2/h3 child ("" when there is none) and pieces are the text      *)
(* pieces of the rest of the node.                                         *)
(***************************************************************************)
NoAttrs == <<>>

Node(name, attrs, htag, hpieces, pieces) ==
    [name |-> name, attrs |-> attrs, htag |-> htag, hpieces |-> hpieces,
     pieces |-> pieces]

\* isinstance(child, Tag), as opposed to NavigableString
IsTag(n) == n.name # "#text"

\* tag.get("class", [])
GetClass(tag) == IF "class" \in DOMAIN tag.attrs THEN tag.attrs["class"] ELSE <<>>

\* str(tag): the markup of the node
Str(tag) ==
    "<" \o tag.name
    \o (IF "class" \in DOMAIN tag.attrs
        THEN " class=\"" \o Join(tag.attrs["class"], " ") \o "\"" ELSE "")
    \o ">"
    \o (IF tag.htag # ""
        THEN "<" \o tag.htag \o ">" \o Join(tag.hpieces, "") \o "</" \o tag.htag \o ">"
        ELSE "")
    \o Join(tag.pieces, "")
    \o "</" \o tag.name \o ">"

\* get_text(" ", strip=True): the stripped, non-empty text pieces joined by " "
RECURSIVE StrippedPieces(_)
StrippedPieces(ps) ==
    IF ps = <<>> THEN <<>>
    ELSE IF Strip(ps[1]) = "" THEN StrippedPieces(Tail(ps))
    ELSE <<Strip(ps[1])>> \o StrippedPieces(Tail(ps))

GetText(ps) == Join(StrippedPieces(ps), " ")

H2_DIV_CLASS == "mw-heading mw-heading2"
H3_DIV_CLASS == "mw-heading mw-heading3"

\* soup.select_one(CONTENT_DIV_SELECTOR)
find_main_content_div(sp) == sp.main_div

(***************************************************************************)
(* extract_opening_paragraphs: the for loop over main_div.children.        *)
(* OpeningScan returns the parts kept and the stop node.                   *)
(***************************************************************************)
IsH2Boundary(child) ==
    /\ child.name = "div"
    /\ "class" \in DOMAIN child.attrs
    /\ Join(GetClass(child), " ") = H2_DIV_CLASS

\* child.name == "p" and not child.get("class")
IsUnclassedP(child) ==
    /\ child.name = "p"
    /\ ~("class" \in DOMAIN child.attrs /\ child.attrs["class"] # <<>>)

RECURSIVE OpeningScan(_, _, _, _)
OpeningScan(children, i, parts, kept) ==
    IF i > Len(children)
    THEN [parts |-> parts, kept |-> kept, stop_idx |-> 0, stop_node |-> None]
    ELSE LET child == children[i] IN
         IF ~IsTag(child) THEN OpeningScan(children, i + 1, parts, kept)
         ELSE IF IsH2Boundary(child)
              THEN [parts |-> parts, kept |-> kept, stop_idx |-> i, stop_node |-> child]
         ELSE IF IsUnclassedP(child)
              THEN OpeningScan(children, i + 1, Append(parts, Str(child)), Append(kept, i))
              ELSE OpeningScan(children, i + 1, parts, kept)

\* kept and stop_idx are the positions (in main_div.children) of the nodes
\* behind parts and stop_node
extract_opening_paragraphs(main_div) ==
    LET r == OpeningScan(main_div.children, 1, <<>>, <<>>) IN
    [html |-> Join(r.parts, "\n\n"), p_count |-> Len(r.parts),
     stop_node |-> r.stop_node, kept |-> r.kept, stop_idx |-> r.stop_idx]

(***************************************************************************)
(* Heading classifier.                                                     *)
(***************************************************************************)
_heading_text_from_div(div) ==
    IF div.htag # "" THEN GetText(div.hpieces)
    ELSE GetText(div.hpieces \o div.pieces)

_is_heading_div(tag) ==
    /\ tag.name = "div"
    /\ Join(GetClass(tag), " ") \in {H2_DIV_CLASS, H3_DIV_CLASS}

_level_of_heading_div(div) ==
    IF Join(GetClass(div), " ") = H2_DIV_CLASS THEN 2
    ELSE IF Join(GetClass(div), " ") = H3_DIV_CLASS THEN 3
    ELSE 0      \* None

\* re.match(r"^Race.*$", txt, re.IGNORECASE): "." does not match a newline
\* and "$" matches at the end or before a final newline
RaceMatch(txt) ==
    /\ Len(txt) >= 4
    /\ LowerCh(Ch(txt, 1)) = "r" /\ LowerCh(Ch(txt, 2)) = "a"
    /\ LowerCh(Ch(txt, 3)) = "c" /\ LowerCh(Ch(txt, 4)) = "e"
    /\ \A i \in 5..Len(txt) : Ch(txt, i) = "\n" => i = Len(txt)

(***************************************************************************)
(* extract_race_section_after.  Indices are 1-based here: Python's index i *)
(* is i + 1, and 0 stands for "no index" (race_heading_idx is None).       *)
(***************************************************************************)
ElementChildren(main_div) == SelectSeq(main_div.children, IsTag)

\* children.index(start_after) + 1, or 0 on ValueError / None (Python,
\* 0-based: the first index scanned); here the first 1-based index scanned
StartIdx(children, start_after) ==
    IF start_after = None THEN 1
    ELSE IF \E i \in 1..Len(children) : children[i] = start_after
         THEN (CHOOSE i \in 1..Len(children) :
                  /\ children[i] = start_after
                  /\ \A k \in 1..(i - 1) : children[k] # start_after) + 1
         ELSE 1

IsRaceHeading(node) == _is_heading_div(node) /\ RaceMatch(_heading_text_from_div(node))

RaceHeadingIdx(children, start_idx) ==
    IF \E i \in start_idx..Len(children) : IsRaceHeading(children[i])
    THEN CHOOSE i \in start_idx..Len(children) :
            /\ IsRaceHeading(children[i])
            /\ \A k \in start_idx..(i - 1) : ~IsRaceHeading(children[k])
    ELSE 0

\* the capture stopping at a heading of any level
StopsCapture_AnyLevel(node, race_heading_level) == _is_heading_div(node)

\* the capture loop "for j in range(race_heading_idx + 1, len(children))"
StopsCapture(node, race_heading_level) ==
    _is_heading_div(node) /\ _level_of_heading_div(node) = race_heading_level

RECURSIVE CaptureScan(_, _, _, _, _)
CaptureScan(children, j, race_heading_level, parts, p_count) ==
    IF j > Len(children) THEN [parts |-> parts, p_count |-> p_count, end |-> j]
    ELSE LET node == children[j] IN
         IF StopsCapture(node, race_heading_level)
         THEN [parts |-> parts, p_count |-> p_count, end |-> j]
         ELSE CaptureScan(children, j + 1, race_heading_level,
                          Append(parts, Str(node)),
                          IF node.name = "p" THEN p_count + 1 ELSE p_count)

\* the scan as a whole: the heading matched, its level, and the capture
RaceScan(main_div, start_after) ==
    LET children == ElementChildren(main_div)
        start_idx == StartIdx(children, start_after)
        race_heading_idx == RaceHeadingIdx(children, start_idx)
    IN  IF race_heading_idx = 0
        THEN [idx |-> 0, level |-> 0, parts |-> <<>>, p_count |-> 0, end |-> 0]
        ELSE LET race_heading_level == _level_of_heading_div(children[race_heading_idx])
                 c == CaptureScan(children, race_heading_idx + 1, race_heading_level, <<>>, 0)
             IN  [idx |-> race_heading_idx, level |-> race_heading_level,
                  parts |-> c.parts, p_count |-> c.p_count, end |-> c.end]

extract_race_section_after(main_div, start_after) ==
    LET r == RaceScan(main_div, start_after) IN
    IF r.idx = 0 \/ r.level = 0 THEN [html |-> "", p_count |-> 0]
    ELSE [html |-> Join(r.parts, "\n\n"), p_count |-> r.p_count]

\* the gluing without the omission of empty parts
Glue_KeepEmpty(lead, race) == Join(<<Strip(lead), Strip(race)>>, "\n\n")

\* the gluing of extract_page_summary
Glue(lead, race) ==
    Join((IF Strip(lead) # "" THEN <<Strip(lead)>> ELSE <<>>)
         \o (IF Strip(race) # "" THEN <<Strip(race)>> ELSE <<>>), "\n\n")

(***************************************************************************)
(* extract_iso_date and the date formatting of extract_page_summary.       *)
(* An element of the date search is [name, attrs].                         *)
(***************************************************************************)
Digits == {"0", "1", "2", "3", "4", "5", "6", "7", "8", "9"}

\* re.match(r"^\d{4}-\d{2}-\d{2}$", s): "$" also matches before a final newline
IsoMatch(s) ==
    /\ Len(s) \in {10, 11}
    /\ \A i \in {1, 2, 3, 4, 6, 7, 9, 10} : Ch(s, i) \in Digits
    /\ Ch(s, 5) = "-" /\ Ch(s, 8) = "-"
    /\ Len(s) = 11 => Ch(s, 11) = "\n"

\* soup.find_all(["time", "span"], attrs=True): a non-dict attrs is a search
\* on the class attribute, so attrs=True keeps the elements that have one
InDatetimeSearch(t) == t.name \in {"time", "span"} /\ "class" \in DOMAIN t.attrs

DatetimeHit(t) ==
    /\ InDatetimeSearch(t)
    /\ "datetime" \in DOMAIN t.attrs
    /\ t.attrs["datetime"] # ""
    /\ IsoMatch(t.attrs["datetime"])

\* soup.find_all(attrs={"title": True})
TitleHit(t) == "title" \in DOMAIN t.attrs /\ IsoMatch(t.attrs["title"])

extract_iso_date(sp) ==
    LET els == sp.elements IN
    IF \E i \in 1..Len(els) : DatetimeHit(els[i])
    THEN Some(els[CHOOSE i \in 1..Len(els) :
                    DatetimeHit(els[i]) /\ \A k \in 1..(i - 1) : ~DatetimeHit(els[k])
             ].attrs["datetime"])
    ELSE IF \E i \in 1..Len(els) : TitleHit(els[i])
    THEN Some(els[CHOOSE i \in 1..Len(els) :
                    TitleHit(els[i]) /\ \A k \in 1..(i - 1) : ~TitleHit(els[k])
             ].attrs["title"])
    ELSE None

DigitVal(c) ==
    CASE c = "0" -> 0 [] c = "1" -> 1 [] c = "2" -> 2 [] c = "3" -> 3 [] c = "4" -> 4
      [] c = "5" -> 5 [] c = "6" -> 6 [] c = "7" -> 7 [] c = "8" -> 8 [] c = "9" -> 9

RECURSIVE ToInt(_)
ToInt(s) == IF s = "" THEN 0 ELSE 10 * ToInt(SubSeq(s, 1, Len(s) - 1)) + DigitVal(Ch(s, Len(s)))

DigitStr(d) == Ch("0123456789", d + 1)

RECURSIVE IntStr(_)
IntStr(n) == IF n < 10 THEN DigitStr(n) ELSE IntStr(n \div 10) \o DigitStr(n % 10)

IsLeap(y) == (y % 4 = 0 /\ y % 100 # 0) \/ y % 400 = 0

DaysInMonth(y, m) ==
    IF m = 2 THEN (IF IsLeap(y) THEN 29 ELSE 28)
    ELSE IF m \in {4, 6, 9, 11} THEN 30 ELSE 31

MonthName(m) ==
    <<"January", "February", "March", "April", "May", "June", "July", "August",
      "September", "October", "November", "December">>[m]

\* datetime.strptime(iso, "%Y-%m-%d") succeeds
StrptimeOk(s) ==
    /\ Len(s) = 10
    /\ LET y == ToInt(SubSeq(s, 1, 4))
           m == ToInt(SubSeq(s, 6, 7))
           d == ToInt(SubSeq(s, 9, 10))
       IN  y >= 1 /\ m \in 1..12 /\ d >= 1 /\ d <= DaysInMonth(y, m)

\* .strftime("%B %-d, %Y")
Strftime(s) ==
    MonthName(ToInt(SubSeq(s, 6, 7))) \o " " \o IntStr(ToInt(SubSeq(s, 9, 10)))
    \o ", " \o IntStr(ToInt(SubSeq(s, 1, 4)))

\* the try/except around the formatting: both attempts parse the same way
PrettyDate(i) ==
    IF i = None \/ i.value = "" THEN None
    ELSE IF StrptimeOk(i.value) THEN Some(Strftime(i.value)) ELSE None

\* extract_page_summary as a whole
ExtractPageSummary(sp) ==
    IF find_main_content_div(sp) = None
    THEN [date |-> None, race_summary |-> ""]
    ELSE LET main_div == find_main_content_div(sp)
             lead == extract_opening_paragraphs(main_div)
             race == extract_race_section_after(main_div, lead.stop_node)
         IN  [date |-> PrettyDate(extract_iso_date(sp)),
              race_summary |-> Glue(lead.html, race.html)]

(***************************************************************************)
(* Pages the model parses.                                                 *)
(***************************************************************************)
HeadingClass(level) == [class |-> <<"mw-heading", "mw-heading" \o IntStr(level)>>]

TextNode   == Node("#text", NoAttrs, "", <<>>, <<"\n">>)
ParaA      == Node("p", NoAttrs, "", <<>>, <<"a">>)
ParaB      == Node("p", NoAttrs, "", <<>>, <<"b">>)
ParaC      == Node("p", NoAttrs, "", <<>>, <<"c">>)
ParaEmptyClass == Node("p", [class |-> <<>>], "", <<>>, <<"e">>)
ParaClassed == Node("p", [class |-> <<"mw-empty-elt">>], "", <<>>, <<>>)
H2Race     == Node("div", HeadingClass(2), "h2", <<"Race">>, <<"[", "edit", "]">>)
H2Reactions == Node("div", HeadingClass(2), "h2", <<"Reactions">>, <<"[", "edit", "]">>)
H3RaceReport == Node("div", HeadingClass(3), "h3", <<" race ", "report">>, <<>>)
H3PreRace  == Node("div", HeadingClass(3), "h3", <<"Pre-race">>, <<>>)
H2NoChild  == Node("div", HeadingClass(2), "", <<>>, <<"RACE day">>)
NotHeading == Node("div", [class |-> <<"mw-heading2", "mw-heading">>], "h2", <<"Race">>, <<>>)
Table      == Node("table", [class |-> <<"wikitable">>], "", <<>>, <<"t">>)

NodeKinds == {TextNode, ParaA, ParaEmptyClass, ParaClassed, H2Race, H2Reactions,
              H3RaceReport, H3PreRace, H2NoChild, NotHeading, Table}

RECURSIVE SeqsUpTo(_, _)
SeqsUpTo(S, n) ==
    IF n = 0 THEN {<<>>}
    ELSE LET shorter == SeqsUpTo(S, n - 1) IN
         shorter \cup {Append(q, x) : q \in {r \in shorter : Len(r) = n - 1}, x \in S}

MainDiv(children) == [children |-> children]

Page(main_div, elements) == [main_div |-> main_div, elements |-> elements]

\* a page with no div.mw-content-ltr.mw-parser-output
NoMainPage == Page(None, <<>>)

\* the pages of the general scan: any children, no date
GeneralPages == {Page(MainDiv(c), <<>>) : c \in SeqsUpTo(NodeKinds, MaxChildren)}

\* whitespace text nodes between the elements, as in a saved page
RECURSIVE Interleave(_)
Interleave(q) == IF q = <<>> THEN <<TextNode>> ELSE <<TextNode, q[1]>> \o Interleave(Tail(q))

\* the pages of the end-to-end example: a lead paragraph, the heading "Race",
\* two paragraphs, the heading "Reactions", further content
Paragraphs == {ParaA, ParaB, ParaC, ParaEmptyClass, ParaClassed}

EndToEndChildren ==
    {<<l, H2Race, p1, p2, H2Reactions>> \o t :
        l \in {ParaA, ParaB}, p1 \in Paragraphs, p2 \in Paragraphs,
        t \in (SeqsUpTo(NodeKinds, MaxTail) \ {<<>>})}

EndToEndPages ==
    {Page(MainDiv(c), <<>>) : c \in EndToEndChildren}
    \cup {Page(MainDiv(Interleave(c)), <<>>) : c \in EndToEndChildren}

(***************************************************************************)
(* extract_page_summary, one action per step.                              *)
(***************************************************************************)
PageStart(sp) ==
    /\ soup = sp
    /\ ppc = "find_main"
    /\ lead_html = "" /\ i_count = 0 /\ stop_node = None
    /\ race_html = "" /\ j_count = 0
    /\ combined_html = ""
    /\ iso = None /\ pretty_date = None
    /\ summary = None

PageIdle ==
    /\ soup = NoMainPage
    /\ ppc = "idle"
    /\ lead_html = "" /\ i_count = 0 /\ stop_node = None
    /\ race_html = "" /\ j_count = 0
    /\ combined_html = ""
    /\ iso = None /\ pretty_date = None
    /\ summary = None

\* "if not main_div: return {date: None, race_summary: ''}"
NoMainDiv ==
    /\ ppc = "find_main"
    /\ find_main_content_div(soup) = None
    /\ summary' = [date |-> None, race_summary |-> ""]
    /\ ppc' = "done"
    /\ UNCHANGED <<soup, lead_html, i_count, stop_node, race_html, j_count,
                   combined_html, iso, pretty_date>>
    /\ UNCHANGED <<catVars, mainVars>>

\* Step #1
OpeningParagraphs ==
    /\ ppc = "find_main"
    /\ find_main_content_div(soup) # None
    /\ LET r == extract_opening_paragraphs(find_main_content_div(soup)) IN
        /\ lead_html' = r.html
        /\ i_count' = r.p_count
        /\ stop_node' = r.stop_node
    /\ ppc' = "race"
    /\ UNCHANGED <<soup, race_html, j_count, combined_html, iso, pretty_date, summary>>
    /\ UNCHANGED <<catVars, mainVars>>

\* Step #2
RaceSection ==
    /\ ppc = "race"
    /\ LET r == extract_race_section_after(find_main_content_div(soup), stop_node) IN
        /\ race_html' = r.html
        /\ j_count' = r.p_count
    /\ ppc' = "glue"
    /\ UNCHANGED <<soup, lead_html, i_count, stop_node, combined_html, iso,
                   pretty_date, summary>>
    /\ UNCHANGED <<catVars, mainVars>>

\* the gluing, the date and the return
Assemble ==
    /\ ppc = "glue"
    /\ combined_html' = Glue(lead_html, race_html)
    /\ iso' = extract_iso_date(soup)
    /\ pretty_date' = PrettyDate(iso')
    /\ summary' = [date |-> pretty_date', race_summary |-> combined_html']
    /\ ppc' = "done"
    /\ UNCHANGED <<soup, lead_html, i_count, stop_node, race_html, j_count>>
    /\ UNCHANGED <<catVars, mainVars>>

PageNext == NoMainDiv \/ OpeningParagraphs \/ RaceSection \/ Assemble

(***************************************************************************)
(* parse_year_links_from_category.  An anchor is [text, attrs]; the dict   *)
(* links is the sequence of its <<year, url>> items in insertion order.    *)
(***************************************************************************)
Letters == {Ch("abcdefghijklmnopqrstuvwxyzABCDEFGHIJKLMNOPQRSTUVWXYZ", i) : i \in 1..52}

\* \w
IsWordCh(c) == c \in Letters \cup Digits \cup {"_"}

\* a match of YEAR_RE = \b(19|20)\d{2}\b starts at i
YearAt(text, i) ==
    /\ i >= 1 /\ i + 3 <= Len(text)
    /\ SubSeq(text, i, i + 1) \in {"19", "20"}
    /\ Ch(text, i + 2) \in Digits /\ Ch(text, i + 3) \in Digits
    /\ (i = 1 \/ ~IsWordCh(Ch(text, i - 1)))
    /\ (i + 3 = Len(text) \/ ~IsWordCh(Ch(text, i + 4)))

\* YEAR_RE.search(text): the leftmost match, 0 when there is none
YearSearch(text) ==
    IF \E i \in 1..Len(text) : YearAt(text, i)
    THEN CHOOSE i \in 1..Len(text) :
            YearAt(text, i) /\ \A k \in 1..(i - 1) : ~YearAt(text, k)
    ELSE 0

ExcludedPrefixes == {"/wiki/Talk:", "/wiki/Category:", "/wiki/File:", "/wiki/Help:"}

Keys(d) == [i \in 1..Len(d) |-> d[i][1]]

HasKey(d, k) == \E i \in 1..Len(d) : d[i][1] = k

Lookup(d, k) == d[CHOOSE i \in 1..Len(d) : d[i][1] = k][2]

\* the assignment links[k] = v in place of setdefault: the last anchor wins
SetDefault_Overwrite(d, k, v) ==
    IF HasKey(d, k) THEN [i \in 1..Len(d) |-> IF d[i][1] = k THEN <<k, v>> ELSE d[i]]
    ELSE Append(d, <<k, v>>)

\* dict.setdefault(k, v)
SetDefault(d, k, v) == IF HasKey(d, k) THEN d ELSE Append(d, <<k, v>>)

\* soup.select("a[href^='/wiki/']")
Selected(a) == "href" \in DOMAIN a.attrs /\ StartsWith(a.attrs["href"], "/wiki/")

\* the body of the for loop, for one anchor of the page
VisitAnchor(d, a) ==
    IF ~Selected(a) THEN d
    ELSE LET text == Strip(a.text)
             href == a.attrs["href"]
             m == YearSearch(text)
         IN  IF text = "" \/ href = "" THEN d
             ELSE IF m = 0 THEN d
             ELSE IF ~Contains(text, "Grand Prix") /\ ~Contains(href, "Grand_Prix") THEN d
             ELSE IF \E prefix \in ExcludedPrefixes : StartsWith(href, prefix) THEN d
             ELSE SetDefault(d, ToInt(SubSeq(text, m, m + 3)),
                             "https://en.wikipedia.org" \o href)

\* sorted(keys): insertion of each item before the first greater key
RECURSIVE InsertSorted(_, _)
InsertSorted(q, x) ==
    IF q = <<>> THEN <<x>>
    ELSE IF x < q[1] THEN <<x>> \o q
    ELSE <<q[1]>> \o InsertSorted(Tail(q), x)

RECURSIVE Sorted(_)
Sorted(q) == IF q = <<>> THEN <<>> ELSE InsertSorted(Sorted(SubSeq(q, 1, Len(q) - 1)), q[Len(q)])

\* {k: links[k] for k in sorted(links.keys())}
SortedByKey(d) == LET ks == Sorted(Keys(d)) IN [i \in 1..Len(ks) |-> <<ks[i], Lookup(d, ks[i])>>]

RECURSIVE VisitAll(_, _)
VisitAll(d, as) == IF as = <<>> THEN d ELSE VisitAll(VisitAnchor(d, as[1]), Tail(as))

parse_year_links_from_category(html) == SortedByKey(VisitAll(<<>>, html))

Anchor(text, href) == [text |-> text, attrs |-> [href |-> href]]

A2014      == Anchor("2014 Mexican Grand Prix", "/wiki/2014_Mexican_Grand_Prix")
A2014GP    == Anchor("2014 Mexican GP", "/wiki/2014_Mexican_Grand_Prix_(race)")
A2014Talk  == Anchor("Talk:2014 Mexican Grand Prix", "/wiki/Talk:2014_Mexican_Grand_Prix")
A2015      == Anchor(" 2015 Mexican Grand Prix\n", "/wiki/2015_Mexican_Grand_Prix")
A2016      == Anchor("2016 Mexican Grand Prix", "/wiki/2016_Mexican_Grand_Prix")
A1990      == Anchor("Grand Prix of 1990", "/wiki/1990_Mexican_Grand_Prix")
ATwoYears  == Anchor("2015 and 2014 Grand Prix", "/wiki/2015_and_2014")
ANoYear    == Anchor("Mexican Grand Prix", "/wiki/Mexican_Grand_Prix")
ANoBoundary == Anchor("20145 Grand Prix", "/wiki/20145_Grand_Prix")
AShort     == Anchor("2015 GP", "/wiki/2015_GP")
ACategory  == Anchor("2016 Grand Prix", "/wiki/Category:2016_Grand_Prix")
AExternal  == Anchor("2016 Grand Prix", "https://example.org/wiki/2016_Grand_Prix")
ANoHref    == [text |-> "2016 Grand Prix", attrs |-> NoAttrs]

AnchorKinds == {A2014, A2014GP, A2014Talk, A2015, A2016, A1990, ATwoYears, ANoYear,
                ANoBoundary, AShort, ACategory, AExternal, ANoHref}

CategoryPages == SeqsUpTo(AnchorKinds, MaxAnchors)

CatStart(html) ==
    /\ anchors = html
    /\ cpc = "loop"
    /\ a_idx = 1
    /\ links = <<>>
    /\ cat_result = <<>>

CatIdle ==
    /\ anchors = <<>>
    /\ cpc = "idle"
    /\ a_idx = 1
    /\ links = <<>>
    /\ cat_result = <<>>

\* one iteration of "for a in soup.select(...)"
CatVisit ==
    /\ cpc = "loop"
    /\ a_idx <= Len(anchors)
    /\ links' = VisitAnchor(links, anchors[a_idx])
    /\ a_idx' = a_idx + 1
    /\ UNCHANGED <<anchors, cpc, cat_result>>
    /\ UNCHANGED <<pageVars, mainVars>>

\* the return
CatReturn ==
    /\ cpc = "loop"
    /\ a_idx > Len(anchors)
    /\ cat_result' = SortedByKey(links)
    /\ cpc' = "done"
    /\ UNCHANGED <<anchors, a_idx, links>>
    /\ UNCHANGED <<pageVars, mainVars>>

CatNext == CatVisit \/ CatReturn

(***************************************************************************)
(* Elements of the date search.                                            *)
(***************************************************************************)
Element(name, attrs) == [name |-> name, attrs |-> attrs]

TimeClassed  == Element("time", [class |-> <<"dtstart">>, datetime |-> "2015-11-01"])
TimeBare     == Element("time", [datetime |-> "2014-11-02"])
SpanClassed  == Element("span", [class |-> <<>>, datetime |-> "2016-02-29"])
SpanBadDay   == Element("span", [class |-> <<"bday">>, datetime |-> "2015-02-29"])
SpanNoMatch  == Element("span", [class |-> <<"bday">>, datetime |-> "1 November 2015"])
AbbrDatetime == Element("abbr", [class |-> <<"published">>, datetime |-> "2013-10-27"])
TitleDate    == Element("a", [title |-> "2012-03-04"])
TitleBadMonth == Element("span", [title |-> "2015-13-01"])
TitleText    == Element("a", [title |-> "Mexican Grand Prix"])
TitleAndTime == Element("time", [class |-> <<"x">>, title |-> "2011-12-31", datetime |-> ""])

ElementKinds == {TimeClassed, TimeBare, SpanClassed, SpanBadDay, SpanNoMatch,
                 AbbrDatetime, TitleDate, TitleBadMonth, TitleText, TitleAndTime}

DatePages ==
    {Page(c, e) : c \in {None, MainDiv(<<ParaA, H2Race, ParaB>>)},
                  e \in SeqsUpTo(ElementKinds, MaxElements)}

(***************************************************************************)
(* main.  args is the parsed command line; io_log records, in order, every *)
(* fetch, file read, HTML parse and write of the run; exit_status is -1    *)
(* while the process runs; output_file is None or [json |-> the document]. *)
(***************************************************************************)
Years == {2014, 2015, 2016}
NowYears == {2014, 2015}

ArgsSet ==
    [local_html : {None, Some("page.html")},
     only_year : {None} \cup {Some(y) : y \in Years},
     exclude_current_year : BOOLEAN]

\* what requests raises: raise_for_status raises HTTPError, sess.get raises
\* ConnectionError or Timeout
FetchErrors == {"HTTPError", "ConnectionError", "Timeout"}

\* "except requests.HTTPError"
CaughtByExcept(exc) == exc = "HTTPError"

SamplePage ==
    Page(MainDiv(<<TextNode, ParaA, H2Race, ParaB, H2Reactions, ParaC>>), <<TimeClassed>>)

YearPages == {NoMainPage, SamplePage}

MainCategoryPages == SeqsUpTo({A2014, A2014Talk, A2015, A2016}, MaxCatAnchors)

Event(op, target, outcome) == [op |-> op, target |-> target, outcome |-> outcome]

\* json.dump: keys become strings, insertion order is kept
JsonDump(d) == [i \in 1..Len(d) |-> <<IntStr(d[i][1]), d[i][2]>>]

\* the single-year filter, lines 393-394
OnlyYearFilter(d, only_year) ==
    IF only_year = None THEN d
    ELSE SelectSeq(d, LAMBDA item : item[1] = only_year.value)

\* "for y, url in year_links.items()": whether y is kept in filtered
Eligible(y, now, exclude_current_year) ==
    /\ ~(y > now)
    /\ ~(exclude_current_year /\ y = now)

FilterYears(d, now, exclude_current_year) ==
    SelectSeq(d, LAMBDA item : Eligible(item[1], now, exclude_current_year))

MainStart(a, now) ==
    /\ args = a
    /\ now_year = now
    /\ pc = "start"
    /\ cat_html = <<>>
    /\ year_links = <<>> /\ filtered = <<>> /\ years_sorted = <<>>
    /\ y_idx = 1
    /\ results = <<>>
    /\ output_file = None
    /\ exit_status = -1
    /\ io_log = <<>>

MainIdle ==
    /\ args = [local_html |-> None, only_year |-> None, exclude_current_year |-> FALSE]
    /\ now_year = 2015
    /\ pc = "idle"
    /\ cat_html = <<>>
    /\ year_links = <<>> /\ filtered = <<>> /\ years_sorted = <<>>
    /\ y_idx = 1
    /\ results = <<>>
    /\ output_file = None
    /\ exit_status = -1
    /\ io_log = <<>>

\* the check of --only-year made after the file is read
LocalWithoutYear_AfterRead ==
    /\ pc = "start"
    /\ args.local_html # None
    /\ args.only_year = None
    /\ io_log' = Append(io_log, Event("read", args.local_html.value, "ok"))
    /\ exit_status' = 2
    /\ pc' = "exit"
    /\ UNCHANGED <<args, now_year, cat_html, year_links, filtered, years_sorted,
                   y_idx, results, output_file>>
    /\ UNCHANGED <<pageVars, catVars>>

\* lines 368-371: --local-html without --only-year
LocalWithoutYear ==
    /\ pc = "start"
    /\ args.local_html # None
    /\ args.only_year = None
    /\ exit_status' = 2
    /\ pc' = "exit"
    /\ UNCHANGED <<args, now_year, cat_html, year_links, filtered, years_sorted,
                   y_idx, results, output_file, io_log>>
    /\ UNCHANGED <<pageVars, catVars>>

\* line 372 raising (no such file): nothing catches it
LocalReadError ==
    /\ pc = "start"
    /\ args.local_html # None
    /\ args.only_year # None
    /\ io_log' = Append(io_log, Event("read", args.local_html.value, "OSError"))
    /\ exit_status' = 1
    /\ pc' = "exit"
    /\ UNCHANGED <<args, now_year, cat_html, year_links, filtered, years_sorted,
                   y_idx, results, output_file>>
    /\ UNCHANGED <<pageVars, catVars>>

\* lines 372-380: the local single-year run
LocalRun ==
    /\ pc = "start"
    /\ args.local_html # None
    /\ args.only_year # None
    /\ \E html \in YearPages :
        /\ results' = <<<<args.only_year.value, ExtractPageSummary(html)>>>>
        /\ output_file' = [json |-> JsonDump(results')]
        /\ io_log' = io_log \o <<Event("read", args.local_html.value, "ok"),
                                 Event("parse", args.local_html.value, "ok"),
                                 Event("write", "output", "ok")>>
    /\ exit_status' = 0
    /\ pc' = "done"
    /\ UNCHANGED <<args, now_year, cat_html, year_links, filtered, years_sorted, y_idx>>
    /\ UNCHANGED <<pageVars, catVars>>

\* line 384 returning the category page
FetchCategory ==
    /\ pc = "start"
    /\ args.local_html = None
    /\ \E html \in MainCategoryPages : cat_html' = html
    /\ io_log' = Append(io_log, Event("fetch", "category", "ok"))
    /\ pc' = "parse"
    /\ UNCHANGED <<args, now_year, year_links, filtered, years_sorted, y_idx,
                   results, output_file, exit_status>>
    /\ UNCHANGED <<pageVars, catVars>>

\* lines 383-388: the fetch of the category page raising.  A caught error
\* ends in sys.exit(1); an uncaught one ends the process with a traceback,
\* whose exit status is 1 as well
FetchCategoryError ==
    /\ pc = "start"
    /\ args.local_html = None
    /\ \E exc \in FetchErrors :
        io_log' = Append(io_log, Event("fetch", "category", exc))
    /\ exit_status' = 1
    /\ pc' = "exit"
    /\ UNCHANGED <<args, now_year, cat_html, year_links, filtered, years_sorted,
                   y_idx, results, output_file>>
    /\ UNCHANGED <<pageVars, catVars>>

\* lines 390-409: parse, single-year filter, eligibility filter, sort
ParseAndFilter ==
    /\ pc = "parse"
    /\ year_links' = OnlyYearFilter(parse_year_links_from_category(cat_html), args.only_year)
    /\ filtered' = FilterYears(year_links', now_year, args.exclude_current_year)
    /\ years_sorted' = Sorted(Keys(filtered'))
    /\ results' = <<>>
    /\ y_idx' = 1
    /\ io_log' = Append(io_log, Event("parse", "category", "ok"))
    /\ pc' = "loop"
    /\ UNCHANGED <<args, now_year, cat_html, output_file, exit_status>>
    /\ UNCHANGED <<pageVars, catVars>>

\* lines 410-422: one iteration whose fetch succeeds
FetchYear ==
    /\ pc = "loop"
    /\ y_idx <= Len(years_sorted)
    /\ LET y == years_sorted[y_idx] IN
       \E html \in YearPages :
        /\ results' = Append(results, <<y, ExtractPageSummary(html)>>)
        /\ io_log' = io_log \o <<Event("fetch", Lookup(filtered, y), "ok"),
                                 Event("parse", Lookup(filtered, y), "ok")>>
    /\ y_idx' = y_idx + 1
    /\ UNCHANGED <<args, now_year, pc, cat_html, year_links, filtered, years_sorted,
                   output_file, exit_status>>
    /\ UNCHANGED <<pageVars, catVars>>

\* lines 415-419: one iteration whose fetch raises.  "except" catches the
\* error and the loop continues, or nothing catches it and the process ends
FetchYearError ==
    /\ pc = "loop"
    /\ y_idx <= Len(years_sorted)
    /\ \E exc \in FetchErrors :
        /\ io_log' = Append(io_log, Event("fetch", Lookup(filtered, years_sorted[y_idx]), exc))
        /\ IF CaughtByExcept(exc)
           THEN /\ y_idx' = y_idx + 1
                /\ UNCHANGED <<pc, exit_status>>
           ELSE /\ exit_status' = 1
                /\ pc' = "exit"
                /\ UNCHANGED y_idx
    /\ UNCHANGED <<args, now_year, cat_html, year_links, filtered, years_sorted,
                   results, output_file>>
    /\ UNCHANGED <<pageVars, catVars>>

\* lines 424-428: the end of the loop
WriteOutput ==
    /\ pc = "loop"
    /\ y_idx > Len(years_sorted)
    /\ output_file' = [json |-> JsonDump(results)]
    /\ io_log' = Append(io_log, Event("write", "output", "ok"))
    /\ exit_status' = 0
    /\ pc' = "done"
    /\ UNCHANGED <<args, now_year, cat_html, year_links, filtered, years_sorted,
                   y_idx, results>>
    /\ UNCHANGED <<pageVars, catVars>>

MainNext ==
    \/ LocalWithoutYear \/ LocalReadError \/ LocalRun
    \/ FetchCategory \/ FetchCategoryError \/ ParseAndFilter
    \/ FetchYear \/ FetchYearError \/ WriteOutput

(***************************************************************************)
(* Specifications.                                                         *)
(***************************************************************************)
\* extract_page_summary over every page of at most MaxChildren children
InitPage == (\E sp \in GeneralPages \cup {NoMainPage} : PageStart(sp)) /\ CatIdle /\ MainIdle
SpecPage == InitPage /\ [][PageNext]_vars

\* extract_page_summary over the pages of the end-to-end example
InitEndToEnd == (\E sp \in EndToEndPages \cup {NoMainPage} : PageStart(sp)) /\ CatIdle /\ MainIdle
SpecEndToEnd == InitEndToEnd /\ [][PageNext]_vars

\* extract_page_summary over the pages of the date search
InitDate == (\E sp \in DatePages : PageStart(sp)) /\ CatIdle /\ MainIdle
SpecDate == InitDate /\ [][PageNext]_vars

\* parse_year_links_from_category over every category page
InitCat == PageIdle /\ (\E html \in CategoryPages : CatStart(html)) /\ MainIdle
SpecCat == InitCat /\ [][CatNext]_vars

\* main over every command line
InitMain == PageIdle /\ CatIdle /\ (\E a \in ArgsSet, now \in NowYears : MainStart(a, now))
SpecMain == InitMain /\ [][MainNext]_vars

(***************************************************************************)
(* The claims.  What follows states each claim in the vocabulary of the    *)
(* specification: heading boundaries by their class signature, the "Race"  *)
(* prefix, positions in the element-children sequence.                     *)
(***************************************************************************)
Min(S) == CHOOSE x \in S : \A y \in S : x <= y

HasMain == soup.main_div # None

\* the element children of the main region of the page being parsed
Elems == SelectSeq(soup.main_div.children, LAMBDA n : n.name # "#text")

\* level of a heading boundary, 0 for any other node
HeadingLevel(n) ==
    IF n.name = "div" /\ "class" \in DOMAIN n.attrs
    THEN (IF n.attrs["class"] = <<"mw-heading", "mw-heading2">> THEN 2
          ELSE IF n.attrs["class"] = <<"mw-heading", "mw-heading3">> THEN 3
          ELSE 0)
    ELSE 0

\* the text starts with "Race", whatever the case
HasRacePrefix(txt) ==
    Len(txt) >= 4 /\ SubSeq(txt, 1, 4) \in
        {r \o a \o c \o e : r \in {"R", "r"}, a \in {"A", "a"}, c \in {"C", "c"}, e \in {"E", "e"}}

\* positions of the level-2 boundaries among the element children
Level2At == {i \in 1..Len(Elems) : HeadingLevel(Elems[i]) = 2}

\* the first position the section scan looks at: after the first level-2
\* boundary, or the start of the region when there is none
ScanFrom == IF Level2At = {} THEN 1 ELSE Min(Level2At) + 1

\* positions of the scanned heading boundaries whose text matches "Race..."
RaceHeadingsScanned ==
    {i \in ScanFrom..Len(Elems) :
        HeadingLevel(Elems[i]) # 0 /\ HasRacePrefix(_heading_text_from_div(Elems[i]))}

\* the fence: the least position after i of a boundary of the level of i
FenceAfter(i) ==
    LET same == {k \in (i + 1)..Len(Elems) : HeadingLevel(Elems[k]) = HeadingLevel(Elems[i])}
    IN  IF same = {} THEN Len(Elems) + 1 ELSE Min(same)

MarkupOf(q, from, to) == [j \in 1..(to - from + 1) |-> Str(q[from + j - 1])]

\* C6: once a heading of level L at position i is matched, the capture is
\* exactly the elements at positions i+1 .. k-1, k the least later position of
\* a boundary of level L (or the end): boundaries of the other level are
\* captured, the terminating one and what follows are not.
C6_FenceLevelCapture ==
    (ppc \in {"glue", "done"} /\ HasMain /\ RaceHeadingsScanned # {}) =>
        LET i == Min(RaceHeadingsScanned) IN
        race_html = Join(MarkupOf(Elems, i + 1, FenceAfter(i) - 1), "\n\n")

\* a level-2 "Race" heading matched, a level-3 boundary inside the capture,
\* a terminating level-2 boundary and content after it
C6_Witness ==
    /\ ppc = "done" /\ HasMain /\ RaceHeadingsScanned # {}
    /\ LET i == Min(RaceHeadingsScanned) IN
        /\ HeadingLevel(Elems[i]) = 2
        /\ FenceAfter(i) <= Len(Elems)
        /\ \E k \in (i + 1)..(FenceAfter(i) - 1) : HeadingLevel(Elems[k]) = 3
        /\ race_html # ""

\* C8: when no scanned heading boundary has the "Race" prefix, the section
\* is the empty fragment with a zero count, and race_summary is exactly the
\* lead fragment of extract_opening_paragraphs.
C8_NoMatchKeepsLead ==
    (ppc = "done" /\ HasMain /\ RaceHeadingsScanned = {}) =>
        /\ race_html = "" /\ j_count = 0
        /\ lead_html = extract_opening_paragraphs(soup.main_div).html
        /\ summary.race_summary = lead_html

\* no match although headings and paragraphs follow the first boundary, and
\* a lead of two paragraphs
C8_Witness ==
    /\ ppc = "done" /\ HasMain /\ RaceHeadingsScanned = {}
    /\ i_count = 2
    /\ \E i \in ScanFrom..Len(Elems) : HeadingLevel(Elems[i]) # 0
    /\ \E i \in ScanFrom..Len(Elems) : Elems[i].name = "p"
    /\ summary.race_summary # ""

\* ---- extract_opening_paragraphs ----
Children == soup.main_div.children

BoundariesAt == {i \in 1..Len(Children) : HeadingLevel(Children[i]) = 2}

\* a paragraph that carries no class attribute at all
NoClassParagraph(n) == n.name = "p" /\ "class" \notin DOMAIN n.attrs

\* C5: with a level-2 boundary among the children, the lead is exactly the
\* paragraphs without any class attribute before the first boundary, in
\* order, the stop node is that boundary, and no paragraph that carries a
\* class attribute (even an empty one) is included.
C5_LeadIsUnclassedParagraphs ==
    (ppc \in {"race", "glue", "done"} /\ HasMain /\ BoundariesAt # {}) =>
        LET b == Min(BoundariesAt)
            before == SubSeq(Children, 1, b - 1)
            lead == SelectSeq(before, NoClassParagraph)
        IN  /\ lead_html = Join(MarkupOf(lead, 1, Len(lead)), "\n\n")
            /\ i_count = Len(lead)
            /\ stop_node = Children[b]

\* ---- lead and section of one page ----
\* positions (in main_div.children) of the paragraphs kept in the lead
LeadPositions ==
    LET kept == extract_opening_paragraphs(soup.main_div).kept
    IN  {kept[i] : i \in 1..Len(kept)}

\* positions (in main_div.children) of the element children
ElementPositions == SelectSeq([i \in 1..Len(Children) |-> i], LAMBDA i : Children[i].name # "#text")

\* positions (in main_div.children) of the nodes captured in the section
SectionPositions ==
    LET r == RaceScan(soup.main_div, stop_node)
    IN  IF r.idx = 0 THEN {} ELSE {ElementPositions[j] : j \in (r.idx + 1)..(r.end - 1)}

\* C10: no child is captured both in the lead and in the section.
C10_LeadAndSectionDisjoint ==
    (ppc \in {"glue", "done"} /\ HasMain) => LeadPositions \cap SectionPositions = {}

\* C1: for a lead paragraph, the heading "Race", two paragraphs, the heading
\* "Reactions" and further content, race_summary is the lead paragraph's
\* markup, a blank line, and the two paragraphs' markup joined by a blank
\* line; nothing from "Reactions" onward.
C1_EndToEndSummary ==
    (ppc = "done" /\ HasMain) =>
        summary.race_summary =
            Str(Elems[1]) \o "\n\n" \o Str(Elems[3]) \o "\n\n" \o Str(Elems[4])

\* ---- extract_iso_date ----
\* strictly YYYY-MM-DD
IsoShaped(v) ==
    /\ Len(v) = 10
    /\ \A i \in {1, 2, 3, 4, 6, 7, 9, 10} : SubSeq(v, i, i) \in Digits
    /\ SubSeq(v, 5, 5) = "-" /\ SubSeq(v, 8, 8) = "-"

WithDatetime == {i \in 1..Len(soup.elements) :
    "datetime" \in DOMAIN soup.elements[i].attrs /\ IsoShaped(soup.elements[i].attrs["datetime"])}

WithTitle == {i \in 1..Len(soup.elements) :
    "title" \in DOMAIN soup.elements[i].attrs /\ IsoShaped(soup.elements[i].attrs["title"])}

\* C9: the date is the first matching datetime attribute of any element of
\* any tag, else the first matching title attribute, else null; a match that
\* is no calendar date gives a null date field.
C9_DateSearch ==
    (ppc = "done" /\ HasMain) =>
        /\ iso = (IF WithDatetime # {}
                  THEN Some(soup.elements[Min(WithDatetime)].attrs["datetime"])
                  ELSE IF WithTitle # {}
                  THEN Some(soup.elements[Min(WithTitle)].attrs["title"])
                  ELSE None)
        /\ (iso # None /\ ~StrptimeOk(iso.value)) => summary.date = None

\* ---- parse_year_links_from_category ----
\* the year an anchor is about: the leftmost 19xx/20xx in its text, 0 if none
AnchorYear(a) ==
    LET text == Strip(a.text)
        at == {i \in 1..Len(text) : YearAt(text, i)}
    IN  IF at = {} THEN 0 ELSE ToInt(SubSeq(text, Min(at), Min(at) + 3))

\* the anchor qualifies as a year-race link
Qualifies(a) ==
    /\ "href" \in DOMAIN a.attrs
    /\ StartsWith(a.attrs["href"], "/wiki/")
    /\ AnchorYear(a) # 0
    /\ Contains(a.text, "Grand Prix") \/ Contains(a.attrs["href"], "Grand_Prix")
    /\ \A ns \in {"Talk:", "Category:", "File:", "Help:"} :
            ~StartsWith(a.attrs["href"], "/wiki/" \o ns)

QualifyingFor(y) == {i \in 1..Len(anchors) : Qualifies(anchors[i]) /\ AnchorYear(anchors[i]) = y}

\* C4: at most one entry per year, strictly ascending by year; the URL of a
\* year is the absolute form of the first anchor, in document order, that
\* qualifies for it (the year of an anchor being the leftmost 19xx/20xx of
\* its text); a year has an entry exactly when an anchor qualifies for it.
C4_FirstWinsAscending ==
    cpc = "done" =>
        /\ \A i, j \in 1..Len(cat_result) : i < j => cat_result[i][1] < cat_result[j][1]
        /\ \A i \in 1..Len(cat_result) :
            LET y == cat_result[i][1] IN
            /\ QualifyingFor(y) # {}
            /\ cat_result[i][2] =
                  "https://en.wikipedia.org" \o anchors[Min(QualifyingFor(y))].attrs["href"]
        /\ \A k \in 1..Len(anchors) :
            Qualifies(anchors[k]) => \E i \in 1..Len(cat_result) : cat_result[i][1] = AnchorYear(anchors[k])

\* an excluded anchor of a year, then two qualifying anchors of that year
\* with different targets
C4_Witness ==
    /\ cpc = "done"
    /\ \E i, j, k \in 1..Len(anchors) :
        /\ i < j /\ j < k
        /\ ~Qualifies(anchors[i]) /\ AnchorYear(anchors[i]) = AnchorYear(anchors[j])
        /\ Qualifies(anchors[j]) /\ Qualifies(anchors[k])
        /\ AnchorYear(anchors[j]) = AnchorYear(anchors[k])
        /\ anchors[j].attrs["href"] # anchors[k].attrs["href"]
        /\ cat_result = <<<<AnchorYear(anchors[j]),
                            "https://en.wikipedia.org" \o anchors[j].attrs["href"]>>>>

\* ---- main ----
Logged(op, target, outcomes) ==
    \E i \in 1..Len(io_log) :
        io_log[i].op = op /\ io_log[i].target = target /\ io_log[i].outcome \in outcomes

\* C7: --local-html without --only-year ends the run with a non-zero status
\* other than the one of a category-page fetch failure, before any fetch,
\* file read, parse or write.
C7_FailFast ==
    /\ (pc # "start" /\ args.local_html # None /\ args.only_year = None) =>
            /\ pc = "exit" /\ exit_status = 2
            /\ io_log = <<>> /\ output_file = None
    /\ (pc = "exit" /\ Logged("fetch", "category", FetchErrors)) => exit_status \notin {0, 2}

C7_Witness ==
    /\ pc = "exit" /\ exit_status = 2
    /\ args.local_html # None /\ args.only_year = None /\ args.exclude_current_year

\* C2: in a remote run whose category page was fetched, a failing fetch of a
\* year's page is caught: the year is left out, every eligible year is
\* fetched, and the output is written.
C2_YearFetchFailureIsSkipped ==
    (pc \in {"done", "exit"} /\ Logged("fetch", "category", {"ok"})) =>
        /\ pc = "done" /\ output_file # None
        /\ \A i \in 1..Len(years_sorted) :
            LET url == Lookup(filtered, years_sorted[i]) IN
            /\ Logged("fetch", url, {"ok"} \cup FetchErrors)
            /\ HasKey(results, years_sorted[i]) <=> Logged("fetch", url, {"ok"})

\* C3: no key of a written document is a year after the current one, nor
\* the current one when --exclude-current-year is set.
C3_NoIneligibleYearWritten ==
    output_file # None =>
        \A i \in 1..Len(output_file.json) :
            LET y == ToInt(output_file.json[i][1]) IN
            /\ y <= now_year
            /\ args.exclude_current_year => y # now_year

====
